---- MODULE Spec2Model ----
(***************************************************************************)
(* CHADTree: the action dispatcher (rplugin/python3/chadtree/__init__.py)  *)
(* and the transition functions (rplugin/python3/chadtree/transitions.py). *)
(*                                                                         *)
(* Spec     : the dispatcher.  Coroutines created by Main._run, the        *)
(*            background Main._ooda_loop and the Main._initialize task     *)
(*            interleave at their await points around the asyncio.Lock.    *)
(*            The transition function is any fn: it returns None, a Stage  *)
(*            holding its input State, a Stage holding a new State, falls  *)
(*            back to a nested c_refresh, or raises.                       *)
(* LiveSpec : Spec with the event loop's fairness (a ready coroutine is    *)
(*            eventually resumed, a collaborator call eventually returns). *)
(* SpecT    : the transition functions on a concrete State and filesystem, *)
(*            one command at a time through the same dispatcher steps:     *)
(*            the commands that change the disk, the selection and the     *)
(*            filter.                                                      *)
(* SpecN    : the same for the commands that move the root, follow the     *)
(*            current buffer and fold directories.                         *)
(* SpecQ    : the same for the commands that read the quickfix list.       *)
(* SpecC    : the same for clicks on a filtered or searched tree.          *)
(* SpecV    : the same for the commands that add to the index, with the    *)
(*            node tree and the visible paths derived from the State.      *)
(* SpecS    : the same for searches and filters on a folded tree with the  *)
(*            quickfix overlay.                                            *)
(* SpecD    : the background refresh with the timers of the debounce       *)
(*            scheduler, next to one command; LiveSpecD adds the fairness  *)
(*            of the clock and the event loop.                             *)
(* SpecE    : the same as SpecT for the commands that fail on what the     *)
(*            user typed or on a tool outside the editor.                  *)
(* SpecK    : collapse on a tree with a directory in a directory.          *)
(***************************************************************************)
EXTENDS Naturals, Sequences, FiniteSets, TLC

\* settings.update.min_time and max_time, in ticks of the clock.
MinTime == 2
MaxTime == 3

\* Coroutines that Main._run may have in flight at once.
MaxRuns == 2

\* Rows a visual range may span.
MaxRange == 2

Ooda == 0
Runs == 1 .. MaxRuns
Procs == {Ooda} \cup Runs

VARIABLES
    locked,     \* asyncio.Lock._locked of self.lock
    waiters,    \* asyncio.Lock._waiters: the coroutines blocked in acquire(), oldest first
    woken,      \* waiters whose future release() has completed, not yet resumed
    pc,         \* where each coroutine is suspended
    res,        \* how the last finished coroutine of a trigger ended
    init,       \* the self._init task running Main._initialize
    ch,         \* self.ch, the asyncio.Event that CHADschedule_update sets
    state,      \* self.state: the published State, NoState for None
    snap,       \* the local `state` each action read through _curr_state
    stage,      \* the local `stage` the transition function returned
    drawn,      \* the State last passed to redraw
    rendered,   \* the State whose redraw last completed
    cwd,        \* the editor's working directory
    fs,         \* the paths that exist on disk
    qflist,     \* the editor's quickfix list, as the set of its paths
    act,        \* what the command in flight did: collaborator calls and their outcome
    timer       \* the two timers of the scheduler's wait

vars == <<locked, waiters, woken, pc, res, init, ch, state, snap, stage,
          drawn, rendered, cwd, fs, qflist, act, timer>>

lockvars == <<locked, waiters, woken>>
envvars == <<cwd, fs, qflist, act, timer>>

(***************************************************************************)
(* Paths.  A path is the sequence of its components, <<>> being "/".        *)
(***************************************************************************)
Paths == { <<>>, <<"b">>, <<"d">>, <<"b", "d">> }

\* os.path.dirname
dirname(p) == IF p = <<>> THEN <<>> ELSE SubSeq(p, 1, Len(p) - 1)

\* os.path.basename
basename(p) == IF p = <<>> THEN <<>> ELSE <<p[Len(p)]>>

\* os.path.join of a directory and a relative path
join(parent, child) == parent \o child

\* os.path.relpath(path, start) for a path at or below start
relpath(p, start) == SubSeq(p, Len(start) + 1, Len(p))

\* fs.ancestors: every proper ancestor of a path, up to "/"
ancestors(p) == { SubSeq(p, 1, k) : k \in 0 .. (Len(p) - 1) }

\* fs.is_parent: parent is a proper ancestor of child
is_parent(parent, child) == parent \in ancestors(child)

\* fs.unify_ancestors: the paths of a set that have no ancestor in the set
unify_ancestors(paths) == { p \in paths : ancestors(p) \cap paths = {} }

\* Names ending in "b" are directories, names ending in "d" are files.
IsDirPath(p) == p = <<>> \/ p[Len(p)] = "b"

Dirs == { p \in Paths : IsDirPath(p) }
Files == Paths \ Dirs

(***************************************************************************)
(* State and Stage.                                                        *)
(***************************************************************************)
NoState == [none |-> TRUE]
NoStage == [nostage |-> TRUE]

\* types.Stage(state, focus): focus is {} for None
Stage(s, f) == [state |-> s, focus |-> f]

\* settings.follow
SettingsFollow == TRUE

\* state.initial: the State of a fresh session rooted at the working directory
initial_state(dir, id) ==
    [ id |-> id,
      root |-> dir,
      index |-> {dir},
      selection |-> {},
      pattern |-> "",
      search_set |-> {},
      qf_locations |-> {},
      qf_filtering |-> FALSE,
      current |-> {},
      follow |-> SettingsFollow,
      show_hidden |-> FALSE,
      enable_vc |-> TRUE ]

\* Identities of the State objects something still refers to.
LiveIds ==
    { s.id : s \in { x \in ({state, drawn, rendered}
                            \cup { snap[p] : p \in Procs }
                            \cup { stage[p].state : p \in { q \in Procs : stage[q] # NoStage } })
                     : x # NoState } }

\* A newly allocated State object is none of the live ones.
FreshId == CHOOSE i \in 1 .. (Cardinality(LiveIds) + 1) :
               /\ i \notin LiveIds
               /\ \A j \in 1 .. (i - 1) : j \in LiveIds

\* What a command did: the messages it printed, the filesystem mutation it called
\* and how that ended, the answer to its confirmation prompt, the buffer name a
\* refresh read, the rows a select read, and whether a destination existed on disk
\* when it was checked.
Act(op) ==
    [ op |-> op,
      msg |-> FALSE,
      err |-> FALSE,
      mut |-> FALSE,
      failed |-> FALSE,
      dst_exists |-> FALSE,
      ans |-> "",
      buf |-> {},
      nodes |-> {} ]

NoAct == Act("")

\* The scheduler is not waiting on its timers.
Unarmed == [armed |-> FALSE, min |-> 0, max |-> 0]

(***************************************************************************)
(* asyncio.Lock                                                            *)
(***************************************************************************)
\* Lock.acquire takes the lock at once only when it is free and nobody waits.
lock_free_barging == ~locked

lock_free == ~locked /\ waiters = <<>>

\* Lock.release wakes the oldest waiter whose future is not yet done.
wake_target ==
    LET idx == { i \in 1 .. Len(waiters) : waiters[i] \notin woken }
    IN  IF idx = {} THEN {}
        ELSE { waiters[CHOOSE i \in idx : \A j \in idx : i <= j] }

lock_release ==
    /\ locked' = FALSE
    /\ woken' = woken \cup wake_target
    /\ UNCHANGED waiters

\* The transition function of a coroutine: fn for _run, c_refresh for _ooda_loop.
Fn(p) == IF p = Ooda THEN "c_refresh" ELSE "fn"

\* _curr_state without its test of self.state
after_init_anew(p) == "initial_state"

\* _curr_state, up to its first suspension: it returns self.state when there is one
\* (no suspension) and is suspended in initial_state otherwise.
after_init(p) == IF state = NoState THEN "initial_state" ELSE Fn(p)

\* From the lock to the first suspension.  _run awaits self._init first, which
\* suspends unless the task is done; _ooda_loop goes straight to _curr_state.
after_lock(p) == IF p # Ooda /\ init # "done" THEN "await_init" ELSE after_init(p)

\* The coroutine runs on to `to`; reaching its transition function it has read self.state.
goto(p, to) ==
    /\ pc' = [pc EXCEPT ![p] = to]
    /\ snap' = [snap EXCEPT ![p] = IF to = Fn(p) THEN state ELSE NoState]

lock_acquire(p) ==
    IF lock_free
    THEN /\ locked' = TRUE
         /\ goto(p, after_lock(p))
         /\ UNCHANGED <<waiters, woken>>
    ELSE /\ waiters' = Append(waiters, p)
         /\ pc' = [pc EXCEPT ![p] = "blocked"]
         /\ UNCHANGED <<locked, woken, snap>>

\* A woken waiter resumes inside acquire(): it leaves the queue and takes the lock.
lock_resume(p) ==
    /\ p \in woken
    /\ waiters' = SelectSeq(waiters, LAMBDA w : w # p)
    /\ woken' = woken \ {p}
    /\ locked' = TRUE
    /\ goto(p, after_lock(p))

(***************************************************************************)
(* Main._initialize, the task created in Main.__init__                      *)
(***************************************************************************)
\* the task starts and is suspended in its first autocmd call
initialize_begin ==
    /\ init = "pending"
    /\ init' = "registering"
    /\ UNCHANGED <<lockvars, pc, res, ch, state, snap, stage, drawn, rendered, envvars>>

\* the last call (add_hl_groups) returns, or one of the calls raises
initialize_end ==
    /\ init = "registering"
    /\ init' \in {"done", "failed"}
    /\ UNCHANGED <<lockvars, pc, res, ch, state, snap, stage, drawn, rendered, envvars>>

(***************************************************************************)
(* Main._submit and Main._run                                              *)
(***************************************************************************)
\* _submit: run_coroutine_threadsafe schedules the coroutine on the loop
submit(p) ==
    /\ pc[p] = "idle"
    /\ pc' = [pc EXCEPT ![p] = "acquire"]
    /\ UNCHANGED <<lockvars, res, init, ch, state, snap, stage, drawn, rendered, envvars>>

\* _submit.run: fut.result() returns or raises; an exception is logged
reap(p) ==
    /\ pc[p] = "done"
    /\ pc' = [pc EXCEPT ![p] = "idle"]
    /\ res' = [res EXCEPT ![p] = ""]
    /\ act' = NoAct
    /\ UNCHANGED <<lockvars, init, ch, state, snap, stage, drawn, rendered, cwd, fs, qflist,
                   timer>>

\* The coroutine leaves `async with self.lock` and ends: the lock is released.
finish(p, r) ==
    /\ lock_release
    /\ pc' = [pc EXCEPT ![p] = "done"]
    /\ res' = [res EXCEPT ![p] = r]
    /\ snap' = [snap EXCEPT ![p] = NoState]
    /\ stage' = [stage EXCEPT ![p] = NoStage]

\* async with self.lock: entry, skipping the lock
run_lock_skipped(p) ==
    /\ pc[p] = "acquire"
    /\ goto(p, after_lock(p))
    /\ UNCHANGED <<lockvars, res, init, ch, state, stage, drawn, rendered, envvars>>

\* async with self.lock: entry
run_lock(p) ==
    /\ pc[p] = "acquire"
    /\ lock_acquire(p)
    /\ UNCHANGED <<res, init, ch, state, stage, drawn, rendered, envvars>>

run_resume(p) ==
    /\ pc[p] = "blocked"
    /\ lock_resume(p)
    /\ UNCHANGED <<res, init, ch, state, stage, drawn, rendered, envvars>>

\* await self._init: resumes once the task is done, and re-raises its exception
run_await_init(p) ==
    /\ pc[p] = "await_init"
    /\ \/ /\ init = "done"
          /\ goto(p, after_init(p))
          /\ UNCHANGED <<lockvars, res, stage>>
       \/ /\ init = "failed"
          /\ finish(p, "raised")
    /\ UNCHANGED <<init, ch, state, drawn, rendered, envvars>>

\* _curr_state: initial_state returned; self.state = ...; return self.state
curr_state_initial(p) ==
    /\ pc[p] = "initial_state"
    /\ state' = initial_state(cwd, FreshId)
    /\ snap' = [snap EXCEPT ![p] = state']
    /\ pc' = [pc EXCEPT ![p] = Fn(p)]
    /\ UNCHANGED <<lockvars, res, init, ch, stage, drawn, rendered, envvars>>

\* `if stage:` with a Stage, redraw being called with the State that was read
publish_redraws_read(p, st) ==
    /\ stage' = [stage EXCEPT ![p] = st]
    /\ state' = st.state
    /\ drawn' = snap[p]
    /\ pc' = [pc EXCEPT ![p] = "redraw"]
    /\ UNCHANGED <<lockvars, res, snap, rendered>>

\* `if stage:` with a Stage: self.state = stage.state, and redraw is called with it
publish(p, st) ==
    /\ stage' = [stage EXCEPT ![p] = st]
    /\ state' = st.state
    /\ drawn' = st.state
    /\ pc' = [pc EXCEPT ![p] = "redraw"]
    /\ UNCHANGED <<lockvars, res, snap, rendered>>

\* `if stage:` with None, but redrawing all the same
no_stage_redrawn(p) ==
    /\ finish(p, "none")
    /\ drawn' = state
    /\ rendered' = state
    /\ UNCHANGED state

\* `if stage:` with None: the body is skipped and run() ends
no_stage(p) ==
    /\ finish(p, "none")
    /\ UNCHANGED <<state, drawn, rendered>>

\* stage = await fn(...): fn returns None, Stage(state) or Stage(forward(state, ...))
fn_return(p) ==
    /\ pc[p] = "fn"
    /\ \/ no_stage(p)
       \/ publish(p, Stage(snap[p], {}))
       \/ publish(p, Stage([snap[p] EXCEPT !.id = FreshId], {}))
    /\ UNCHANGED <<init, ch, envvars>>

\* fn raises: the exception leaves run() through the lock
fn_raise(p) ==
    /\ pc[p] = "fn"
    /\ finish(p, "raised")
    /\ UNCHANGED <<init, ch, state, drawn, rendered, envvars>>

\* `return await c_refresh(...)`, had c_refresh taken self.lock again
fn_fallback_relock(p) ==
    /\ pc[p] = "fn"
    /\ waiters' = Append(waiters, p)
    /\ pc' = [pc EXCEPT ![p] = "blocked"]
    /\ UNCHANGED <<locked, woken, res, init, ch, state, snap, stage, drawn, rendered, envvars>>

\* c_new, c_rename, _delete, _operation: the mutation failed, `return await c_refresh(...)`
fn_fallback(p) ==
    /\ pc[p] = "fn"
    /\ pc' = [pc EXCEPT ![p] = "fallback"]
    /\ UNCHANGED <<lockvars, res, init, ch, state, snap, stage, drawn, rendered, envvars>>

\* the nested c_refresh returns its Stage, which fn returns to run()
fallback_return(p) ==
    /\ pc[p] = "fallback"
    /\ publish(p, Stage([snap[p] EXCEPT !.id = FreshId], {}))
    /\ UNCHANGED <<init, ch, envvars>>

\* the nested c_refresh raises
fallback_raise(p) ==
    /\ pc[p] = "fallback"
    /\ finish(p, "raised")
    /\ UNCHANGED <<init, ch, state, drawn, rendered, envvars>>

\* await redraw(...) returns: the lock is released and run() ends
redraw_done(p) ==
    /\ pc[p] = "redraw"
    /\ rendered' = stage[p].state
    /\ finish(p, "staged")
    /\ act' = NoAct
    /\ UNCHANGED <<init, ch, state, drawn, cwd, fs, qflist, timer>>

\* await redraw(...) raises, had the lock been taken without `async with`
redraw_raise_locked(p) ==
    /\ pc[p] = "redraw"
    /\ pc' = [pc EXCEPT ![p] = "done"]
    /\ res' = [res EXCEPT ![p] = "raised"]
    /\ snap' = [snap EXCEPT ![p] = NoState]
    /\ stage' = [stage EXCEPT ![p] = NoStage]
    /\ UNCHANGED <<lockvars, init, ch, state, drawn, rendered, envvars>>

\* await redraw(...) raises
redraw_raise(p) ==
    /\ pc[p] = "redraw"
    /\ finish(p, "raised")
    /\ UNCHANGED <<init, ch, state, drawn, rendered, envvars>>

\* initial_state raises inside _curr_state
initial_state_raise(p) ==
    /\ pc[p] = "initial_state"
    /\ finish(p, "raised")
    /\ UNCHANGED <<init, ch, state, drawn, rendered, envvars>>

run(p) ==
    \/ run_lock(p)
    \/ run_resume(p)
    \/ run_await_init(p)
    \/ curr_state_initial(p)
    \/ initial_state_raise(p)
    \/ fn_return(p)
    \/ fn_raise(p)
    \/ fn_fallback(p)
    \/ fallback_return(p)
    \/ fallback_raise(p)
    \/ redraw_done(p)
    \/ redraw_raise(p)

(***************************************************************************)
(* Main._ooda_loop and CHADschedule_update                                 *)
(***************************************************************************)
\* schedule_udpate: self.ch.set()
schedule_update ==
    /\ ~ch
    /\ ch' = TRUE
    /\ UNCHANGED <<lockvars, pc, res, init, state, snap, stage, drawn, rendered, envvars>>

\* async for _ in schedule(self.ch, ...): the scheduler yields after a signal
schedule_fire ==
    /\ pc[Ooda] = "schedule"
    /\ ch
    /\ ch' = FALSE
    /\ pc' = [pc EXCEPT ![Ooda] = "acquire"]
    /\ res' = [res EXCEPT ![Ooda] = ""]
    /\ UNCHANGED <<lockvars, init, state, snap, stage, drawn, rendered, envvars>>

\* async with self.lock in _ooda_loop, skipping the lock
ooda_lock_skipped ==
    /\ pc[Ooda] = "acquire"
    /\ goto(Ooda, after_lock(Ooda))
    /\ UNCHANGED <<lockvars, res, init, ch, state, stage, drawn, rendered, envvars>>

\* async with self.lock in _ooda_loop
ooda_lock ==
    /\ pc[Ooda] = "acquire"
    /\ lock_acquire(Ooda)
    /\ UNCHANGED <<res, init, ch, state, stage, drawn, rendered, envvars>>

ooda_resume ==
    /\ pc[Ooda] = "blocked"
    /\ lock_resume(Ooda)
    /\ UNCHANGED <<res, init, ch, state, stage, drawn, rendered, envvars>>

\* The iteration ends: the lock is released and the loop asks the scheduler again.
ooda_next(r) ==
    /\ lock_release
    /\ pc' = [pc EXCEPT ![Ooda] = "schedule"]
    /\ res' = [res EXCEPT ![Ooda] = r]
    /\ snap' = [snap EXCEPT ![Ooda] = NoState]
    /\ stage' = [stage EXCEPT ![Ooda] = NoStage]

\* stage = await c_refresh(...); self.state = stage.state; redraw is called
ooda_refresh_return ==
    /\ pc[Ooda] = "c_refresh"
    /\ publish(Ooda, Stage([snap[Ooda] EXCEPT !.id = FreshId], {}))
    /\ UNCHANGED <<init, ch, envvars>>

\* c_refresh raises NvimError: self.ch.set()
ooda_refresh_nvim_error ==
    /\ pc[Ooda] = "c_refresh"
    /\ ooda_next("raised")
    /\ ch' = TRUE
    /\ UNCHANGED <<init, state, drawn, rendered, envvars>>

\* await redraw(...) returns
ooda_redraw_done ==
    /\ pc[Ooda] = "redraw"
    /\ rendered' = stage[Ooda].state
    /\ ooda_next("staged")
    /\ UNCHANGED <<init, ch, state, drawn, envvars>>

\* redraw raises NvimError: self.ch.set()
ooda_redraw_nvim_error ==
    /\ pc[Ooda] = "redraw"
    /\ ooda_next("raised")
    /\ ch' = TRUE
    /\ UNCHANGED <<init, state, drawn, rendered, envvars>>

\* any other exception (from initial_state, c_refresh or redraw) leaves _ooda_loop
ooda_die ==
    /\ pc[Ooda] \in {"initial_state", "c_refresh", "redraw"}
    /\ lock_release
    /\ pc' = [pc EXCEPT ![Ooda] = "dead"]
    /\ res' = [res EXCEPT ![Ooda] = "raised"]
    /\ snap' = [snap EXCEPT ![Ooda] = NoState]
    /\ stage' = [stage EXCEPT ![Ooda] = NoStage]
    /\ UNCHANGED <<init, ch, state, drawn, rendered, envvars>>

\* run_forever calls _ooda_loop again
ooda_restart ==
    /\ pc[Ooda] = "dead"
    /\ pc' = [pc EXCEPT ![Ooda] = "schedule"]
    /\ UNCHANGED <<lockvars, res, init, ch, state, snap, stage, drawn, rendered, envvars>>

ooda ==
    \/ schedule_fire
    \/ ooda_lock
    \/ ooda_resume
    \/ curr_state_initial(Ooda)
    \/ ooda_refresh_return
    \/ ooda_refresh_nvim_error
    \/ ooda_redraw_done
    \/ ooda_redraw_nvim_error
    \/ ooda_die
    \/ ooda_restart

(***************************************************************************)
(* schedule(self.ch, min_time, max_time) with its timers: a wait that a    *)
(* signal restarts, bounded by a wait that nothing restarts.               *)
(***************************************************************************)
\* The scheduler finds the event set: it clears it and starts its wait, or
\* restarts the minimum wait when it was waiting already.
schedule_wake ==
    /\ pc[Ooda] = "schedule"
    /\ ch
    /\ ch' = FALSE
    /\ timer' = IF timer.armed THEN [timer EXCEPT !.min = 0]
                               ELSE [armed |-> TRUE, min |-> 0, max |-> 0]
    /\ UNCHANGED <<lockvars, pc, res, init, state, snap, stage, drawn, rendered,
                   cwd, fs, qflist, act>>

\* Time passes while the scheduler waits; it does not pass beyond the end of a wait.
schedule_tick ==
    /\ timer.armed
    /\ timer.min < MinTime
    /\ timer.max < MaxTime
    /\ timer' = [timer EXCEPT !.min = @ + 1, !.max = @ + 1]
    /\ UNCHANGED <<lockvars, pc, res, init, ch, state, snap, stage, drawn, rendered,
                   cwd, fs, qflist, act>>

\* One of the waits is over: the scheduler yields and the body of the loop runs.
schedule_yield ==
    /\ pc[Ooda] = "schedule"
    /\ timer.armed
    /\ timer.min = MinTime \/ timer.max = MaxTime
    /\ timer' = Unarmed
    /\ pc' = [pc EXCEPT ![Ooda] = "acquire"]
    /\ res' = [res EXCEPT ![Ooda] = ""]
    /\ UNCHANGED <<lockvars, init, ch, state, snap, stage, drawn, rendered,
                   cwd, fs, qflist, act>>

(***************************************************************************)
(* The dispatcher                                                          *)
(***************************************************************************)
Init ==
    /\ locked = FALSE
    /\ waiters = <<>>
    /\ woken = {}
    /\ pc = [p \in Procs |-> IF p = Ooda THEN "schedule" ELSE "idle"]
    /\ res = [p \in Procs |-> ""]
    /\ init = "pending"
    /\ ch = FALSE
    /\ state = NoState
    /\ snap = [p \in Procs |-> NoState]
    /\ stage = [p \in Procs |-> NoStage]
    /\ drawn = NoState
    /\ rendered = NoState
    /\ cwd = <<>>
    /\ fs = Paths
    /\ qflist = {}
    /\ act = NoAct
    /\ timer = Unarmed

Next ==
    \/ initialize_begin
    \/ initialize_end
    \/ schedule_update
    \/ ooda
    \/ \E p \in Runs : submit(p) \/ run(p) \/ reap(p)

Spec == Init /\ [][Next]_vars

\* The event loop resumes every ready coroutine and every collaborator call returns.
Fairness ==
    /\ WF_vars(initialize_begin \/ initialize_end)
    /\ WF_vars(ooda)
    /\ \A p \in Runs : WF_vars(run(p))

LiveSpec == Spec /\ Fairness

(***************************************************************************)
(* The filesystem collaborators (fs.py), by what they leave on disk.  Each  *)
(* call either succeeds or raises; a call that raises may have done part    *)
(* of its work.                                                             *)
(***************************************************************************)
\* An optional value is the empty set (None, "") or a singleton.
The(S) == CHOOSE x \in S : TRUE

\* The paths at or below a set of paths.
Subtree(P) == { q \in Paths : \E p \in P : q = p \/ is_parent(p, q) }

\* A directory tree on disk: "/" exists and so does the parent of every path.
FsOk(F) == <<>> \in F /\ \A q \in F : dirname(q) \in F

\* fs.fs_exists, os.path.exists
exists(p, fsys) == p \in fsys

\* A call that was made, with how it ended and the disk it left.
Outcome(ok, fsys) == [called |-> TRUE, ok |-> ok, fs |-> fsys]

\* The collaborator was not called.
NotCalled(fsys) == [called |-> FALSE, ok |-> TRUE, fs |-> fsys]

\* fs.new: the missing ancestors are made, then the file or directory itself
new_outcomes(name, fsys) ==
    (IF name \in Paths /\ ~exists(name, fsys)
     THEN { Outcome(TRUE, fsys \cup ancestors(name) \cup {name}) }
     ELSE {})
    \cup { Outcome(FALSE, fsys),
           Outcome(FALSE, fsys \cup (ancestors(name) \cap Paths)) }

\* Where the paths below src land when src becomes dst.
Moved(src, dst, fsys) == { join(dst, relpath(q, src)) : q \in Subtree({src}) \cap fsys }

\* One move or copy can be carried out: the source exists, the destination is a new
\* path outside the source, and a file stays a file.
CanTransfer(src, dst, fsys) ==
    /\ exists(src, fsys)
    /\ src # <<>>
    /\ dst \in Paths
    /\ ~exists(dst, fsys)
    /\ dst \notin Subtree({src})
    /\ IsDirPath(src) = IsDirPath(dst)
    /\ Moved(src, dst, fsys) \subseteq Paths

\* fs.rename
rename_outcomes(src, dst, fsys) ==
    (IF CanTransfer(src, dst, fsys)
     THEN { Outcome(TRUE, (fsys \ Subtree({src})) \cup Moved(src, dst, fsys)
                              \cup ancestors(dst)) }
     ELSE {})
    \cup { Outcome(FALSE, fsys) }

\* The disk after the operations of R, a subset of the sources, were carried out.
Transferred(ops, R, fsys, move) ==
    (IF move THEN fsys \ Subtree(R) ELSE fsys)
    \cup UNION { Moved(src, ops[src], fsys) \cup ancestors(ops[src]) : src \in R }

\* The subsets of the sources whose operations can all be carried out.
Transferable(ops, fsys) ==
    { R \in SUBSET DOMAIN ops :
        /\ \A src \in R : CanTransfer(src, ops[src], fsys)
        /\ \A src, other \in R : src # other => ops[src] # ops[other] }

\* fs.cut (move = TRUE) and fs.copy (move = FALSE) of {src: dst}
transfer_outcomes(ops, fsys, move) ==
    { Outcome(R = DOMAIN ops, Transferred(ops, R, fsys, move)) :
        R \in Transferable(ops, fsys) }
    \cup { Outcome(FALSE, fsys) }

\* fs.remove and fs.trash of the unified paths
remove_outcomes(unified, fsys) ==
    (IF unified \subseteq fsys \ {<<>>}
     THEN { Outcome(TRUE, fsys \ Subtree(unified)) }
     ELSE {})
    \cup { Outcome(FALSE, fsys \ Subtree(R)) :
             R \in { Q \in SUBSET ((Subtree(unified) \cap fsys) \ {<<>>}) :
                       ~(unified \subseteq Subtree(Q)) } }

(***************************************************************************)
(* The editor, as the transition functions read it.                        *)
(***************************************************************************)
\* find_current_buffer_name: "" or the path of the buffer in the current window,
\* which may be a file named in a directory that is not on the disk
Bufs == { {}, {<<"b", "d">>}, {<<"c", "d">>} }

\* The rows of the tree buffer show the root and paths below it.
Under(root) == { p \in Paths : p = root \/ is_parent(root, p) }

\* _index: the node of the cursor row, None outside the tree buffer or its rows
NodeOpts(s) == {{}} \cup { {p} : p \in Under(s.root) }

\* _indices: the nodes of the visual range, or of the cursor row
NodeSets(s, is_visual) ==
    { n \in SUBSET Under(s.root) : Cardinality(n) <= IF is_visual THEN MaxRange ELSE 1 }

\* What the user can type at an input prompt for a relative path: nothing, or a name.
RelNames == {{}} \cup UNION { { {relpath(q, p)} : p \in ancestors(q) } : q \in Paths }

\* quickfix(): the paths that have entries in the editor's quickfix list
QfLists == { {}, {<<"d">>}, {<<"b", "d">>} }

\* What the user can type as a filter or search pattern.
Patterns == {"", "d"}

\* What search() finds under the root for a pattern: nothing, or the file in "/b".
SearchSets(root) == { {}, Under(root) \cap {<<"b", "d">>} }

(***************************************************************************)
(* The transition functions (transitions.py).  Each returns what the        *)
(* dispatcher receives (a Stage or NoStage for None), the disk it leaves     *)
(* and what it did.                                                         *)
(***************************************************************************)
Result(st, fsys, a) == [stage |-> st, fs |-> fsys, act |-> a]

Get(d, f, default) == IF f \in DOMAIN d THEN d[f] ELSE default

\* state.forward: a new State in which the given fields are replaced
forward(s, d) ==
    [ id |-> FreshId,
      root |-> Get(d, "root", s.root),
      index |-> Get(d, "index", s.index),
      selection |-> Get(d, "selection", s.selection),
      pattern |-> Get(d, "pattern", s.pattern),
      search_set |-> Get(d, "search_set", s.search_set),
      qf_locations |-> Get(d, "qf_locations", s.qf_locations),
      qf_filtering |-> Get(d, "qf_filtering", s.qf_filtering),
      current |-> Get(d, "current", s.current),
      follow |-> Get(d, "follow", s.follow),
      show_hidden |-> Get(d, "show_hidden", s.show_hidden),
      enable_vc |-> Get(d, "enable_vc", s.enable_vc) ]

\* state.is_dir, Mode.folder in node.mode
is_dir(path) == IsDirPath(path)

_current(s, current, a, fsys) ==
    IF current # {} /\ is_parent(s.root, The(current))
    THEN LET paths == IF s.follow THEN ancestors(The(current)) ELSE {}
             index == s.index \cup paths
         IN  Result(Stage(forward(s, [index |-> index, current |-> current]), {}), fsys, a)
    ELSE Result(NoStage, fsys, a)

_change_dir(s, new_base, a, fsys) ==
    LET index == s.index \cup {new_base}
    IN  Result(Stage(forward(s, [root |-> new_base, index |-> index]), {}), fsys, a)

a_changedir(s, dir, fsys) == _change_dir(s, dir, Act("a_changedir"), fsys)

a_follow(s, buf, fsys) ==
    IF buf # {}
    THEN _current(s, buf, Act("a_follow"), fsys)
    ELSE Result(NoStage, fsys, Act("a_follow"))

a_quickfix(s, fsys) ==
    LET locations == qflist
    IN  Result(Stage(forward(s, [ qf_locations |-> locations,
                                  qf_filtering |-> s.qf_filtering ]), {}),
               fsys, Act("a_quickfix"))

\* c_open going on with its defaults when parse_args raises
c_open_lenient(s, parsed, buf, fsys) ==
    LET st == _current(s, buf, Act("c_open"), fsys)
    IN  IF st.stage # NoStage THEN st
        ELSE Result(Stage(s, {}), fsys, Act("c_open"))

c_open(s, parsed, buf, fsys) ==
    IF ~parsed
    THEN Result(NoStage, fsys, [Act("c_open") EXCEPT !.msg = TRUE, !.err = TRUE])
    ELSE LET st == _current(s, buf, Act("c_open"), fsys)
         IN  IF st.stage # NoStage THEN st
             ELSE Result(Stage(s, {}), fsys, Act("c_open"))

\* c_click folding and unfolding directories while a filter or search is on
c_click_unfiltered(s, node, orphan, ans, fsys) ==
    LET a == [Act("c_click") EXCEPT !.nodes = node]
    IN  IF node = {} THEN Result(NoStage, fsys, a)
        ELSE IF orphan
        THEN Result(NoStage, fsys, [a EXCEPT !.msg = TRUE, !.err = TRUE])
        ELSE IF is_dir(The(node))
        THEN LET paths == node
                 index == (s.index \ paths) \cup (paths \ s.index)
             IN  Result(Stage(forward(s, [index |-> index]), {}), fsys, a)
        ELSE IF ans
        THEN Result(Stage(forward(s, [current |-> node]), {}), fsys,
                    [a EXCEPT !.ans = "yes"])
        ELSE Result(NoStage, fsys, [a EXCEPT !.ans = "no"])

c_click(s, node, orphan, ans, fsys) ==
    LET a == [Act("c_click") EXCEPT !.nodes = node]
    IN  IF node = {} THEN Result(NoStage, fsys, a)
        ELSE IF orphan
        THEN Result(NoStage, fsys, [a EXCEPT !.msg = TRUE, !.err = TRUE])
        ELSE IF is_dir(The(node))
        THEN IF s.pattern # "" \/ s.search_set # {}
             THEN Result(NoStage, fsys, [a EXCEPT !.msg = TRUE])
             ELSE LET paths == node
                      index == (s.index \ paths) \cup (paths \ s.index)
                  IN  Result(Stage(forward(s, [index |-> index]), {}), fsys, a)
        ELSE IF ans
        THEN Result(Stage(forward(s, [current |-> node]), {}), fsys,
                    [a EXCEPT !.ans = "yes"])
        ELSE Result(NoStage, fsys, [a EXCEPT !.ans = "no"])

c_change_focus(s, node, fsys) ==
    IF node # {}
    THEN LET new_base == IF is_dir(The(node)) THEN The(node) ELSE dirname(The(node))
         IN  _change_dir(s, new_base, Act("c_change_focus"), fsys)
    ELSE Result(NoStage, fsys, Act("c_change_focus"))

c_change_focus_up(s, fsys) ==
    LET c_root == s.root
        parent == dirname(c_root)
    IN  IF parent # c_root
        THEN _change_dir(s, parent, Act("c_change_focus_up"), fsys)
        ELSE Result(NoStage, fsys, Act("c_change_focus_up"))

\* c_collapse folding the directory and leaving the ones beneath it unfolded
c_collapse_shallow(s, node, fsys) ==
    IF node # {}
    THEN LET path == IF is_dir(The(node)) THEN The(node) ELSE dirname(The(node))
         IN  IF path # s.root
             THEN Result(Stage(forward(s, [index |-> s.index \ {path}]), {}), fsys,
                         Act("c_collapse"))
             ELSE Result(NoStage, fsys, Act("c_collapse"))
    ELSE Result(NoStage, fsys, Act("c_collapse"))

\* c_collapse removing the paths from the index of the State it was given
c_collapse_in_place(s, node, fsys) ==
    IF node # {}
    THEN LET path == IF is_dir(The(node)) THEN The(node) ELSE dirname(The(node))
         IN  IF path # s.root
             THEN LET paths == { i \in s.index : i = path \/ is_parent(path, i) }
                  IN  Result(Stage([s EXCEPT !.index = s.index \ paths], {}), fsys,
                             Act("c_collapse"))
             ELSE Result(NoStage, fsys, Act("c_collapse"))
    ELSE Result(NoStage, fsys, Act("c_collapse"))

c_collapse(s, node, fsys) ==
    IF node # {}
    THEN LET path == IF is_dir(The(node)) THEN The(node) ELSE dirname(The(node))
         IN  IF path # s.root
             THEN LET paths == { i \in s.index : i = path \/ is_parent(path, i) }
                      index == s.index \ paths
                  IN  Result(Stage(forward(s, [index |-> index]), {}), fsys, Act("c_collapse"))
             ELSE Result(NoStage, fsys, Act("c_collapse"))
    ELSE Result(NoStage, fsys, Act("c_collapse"))

_is_filtering(s) == s.pattern # "" /\ s.search_set # {}

\* c_refresh.cont: the selection that survives a refresh, cleared outright
refresh_selection_cleared(s, fsys) == {}

\* c_refresh.cont: the selection that survives a refresh
refresh_selection(s, fsys) ==
    IF _is_filtering(s) THEN {} ELSE { x \in s.selection : exists(x, fsys) }

\* c_refresh.cont: the index that survives a refresh
refresh_index(s, fsys) == { i \in s.index : exists(i, fsys) } \cup {s.root}

c_refresh(s, buf, a, fsys) ==
    LET current == buf
        cwd_ == s.root
        new_current == IF current # {} /\ is_parent(cwd_, The(current)) THEN current ELSE {}
        index == refresh_index(s, fsys)
        selection == refresh_selection(s, fsys)
        current_paths == IF s.follow /\ current # {} THEN ancestors(The(current)) ELSE {}
        new_index == IF new_current # {} THEN index ELSE index \cup current_paths
        d == [ index |-> new_index,
               selection |-> selection,
               qf_locations |-> qflist,
               qf_filtering |-> s.qf_filtering ]
    IN  Result(Stage(forward(s, IF new_current # {}
                                THEN [current |-> new_current] @@ d
                                ELSE d), {}),
               fsys, [a EXCEPT !.buf = buf])

\* `except Exception as e:` around the collaborator, keeping the State it was given
mutation_failed_keeps(s, buf, a, fsys) ==
    Result(Stage(s, {}), fsys,
           [a EXCEPT !.failed = TRUE, !.msg = TRUE, !.err = TRUE, !.buf = buf])

\* `except Exception as e:` around the collaborator in c_new, c_rename, _delete and
\* _operation: the error is printed and the result is that of c_refresh
mutation_failed(s, buf, a, fsys) ==
    c_refresh(s, buf, [a EXCEPT !.failed = TRUE, !.msg = TRUE, !.err = TRUE], fsys)

c_jump_to_current(s, fsys) ==
    LET current == s.current
        a == Act("c_jump_to_current")
    IN  IF current # {}
        THEN LET st == _current(s, current, a, fsys)
             IN  IF st.stage # NoStage
                 THEN Result(Stage(st.stage.state, current), fsys, a)
                 ELSE Result(NoStage, fsys, a)
        ELSE Result(NoStage, fsys, a)

c_toggle_follow(s, fsys) ==
    Result(Stage(forward(s, [follow |-> ~s.follow]), {}), fsys,
           [Act("c_toggle_follow") EXCEPT !.msg = TRUE])

\* c_toggle_qf_filtering keeping the locations of the State it was given
c_toggle_qf_filtering_stale(s, fsys) ==
    LET locations == qflist
        filtering == IF locations # {} THEN ~s.qf_filtering ELSE FALSE
    IN  Result(Stage(forward(s, [qf_filtering |-> filtering]), {}), fsys,
               [Act("c_toggle_qf_filtering") EXCEPT !.msg = TRUE, !.err = (locations = {})])

\* c_toggle_qf_filtering negating the flag whatever the list holds
c_toggle_qf_filtering_blind(s, fsys) ==
    LET locations == qflist
        filtering == ~s.qf_filtering
    IN  Result(Stage(forward(s, [ qf_locations |-> locations,
                                  qf_filtering |-> filtering ]), {}),
               fsys,
               [Act("c_toggle_qf_filtering") EXCEPT !.msg = TRUE, !.err = (locations = {})])

c_toggle_qf_filtering(s, fsys) ==
    LET locations == qflist
        filtering == IF locations # {} THEN ~s.qf_filtering ELSE FALSE
    IN  Result(Stage(forward(s, [ qf_locations |-> locations,
                                  qf_filtering |-> filtering ]), {}),
               fsys,
               [Act("c_toggle_qf_filtering") EXCEPT !.msg = TRUE, !.err = (locations = {})])

\* state.search_forward: the filter with one of its two parts replaced
search_forward(s, d) ==
    [ pattern |-> Get(d, "pattern", s.pattern),
      search_set |-> Get(d, "search_set", s.search_set) ]

c_new_filter(s, pattern, fsys) ==
    LET filter_pattern == search_forward(s, [pattern |-> pattern])
    IN  Result(Stage(forward(s, [selection |-> {}] @@ filter_pattern), {}), fsys,
               Act("c_new_filter"))

\* c_new_search folding every directory but the root
c_new_search_folds(s, pattern, found, failed, fsys) ==
    IF pattern # "" /\ failed
    THEN Result(NoStage, fsys, [Act("c_new_search") EXCEPT !.msg = TRUE, !.err = TRUE])
    ELSE LET search_set == IF pattern # "" THEN found ELSE {}
             filter_pattern == search_forward(s, [search_set |-> search_set])
         IN  Result(Stage(forward(s, [index |-> {s.root}] @@ filter_pattern), {}), fsys,
                    Act("c_new_search"))

c_new_search(s, pattern, found, failed, fsys) ==
    IF pattern # "" /\ failed
    THEN Result(NoStage, fsys, [Act("c_new_search") EXCEPT !.msg = TRUE, !.err = TRUE])
    ELSE LET search_set == IF pattern # "" THEN found ELSE {}
             filter_pattern == search_forward(s, [search_set |-> search_set])
         IN  Result(Stage(forward(s, filter_pattern), {}), fsys, Act("c_new_search"))

\* `if await fs_exists(name):` in c_new
new_exists(name, fsys) == exists(name, fsys)

\* c_new putting the new path itself in the index
c_new_leaf(s, cursor, child, out, buf, fsys) ==
    LET node == IF cursor # {} THEN The(cursor) ELSE s.root
        parent == IF is_dir(node) THEN node ELSE dirname(node)
        name == join(parent, The(child))
        a == [Act("c_new") EXCEPT !.dst_exists = child # {} /\ name \in fsys]
    IN  IF child = {} THEN Result(NoStage, fsys, a)
        ELSE IF new_exists(name, fsys)
        THEN Result(Stage(s, {}), fsys, [a EXCEPT !.msg = TRUE, !.err = TRUE])
        ELSE IF ~out.ok
        THEN mutation_failed(s, buf, [a EXCEPT !.mut = TRUE], out.fs)
        ELSE LET paths == {name}
                 index == s.index \cup paths
             IN  Result(Stage(forward(s, [index |-> index]), {}), out.fs,
                        [a EXCEPT !.mut = TRUE])

c_new(s, cursor, child, out, buf, fsys) ==
    LET node == IF cursor # {} THEN The(cursor) ELSE s.root
        parent == IF is_dir(node) THEN node ELSE dirname(node)
        name == join(parent, The(child))
        a == [Act("c_new") EXCEPT !.dst_exists = child # {} /\ name \in fsys]
    IN  IF child = {} THEN Result(NoStage, fsys, a)
        ELSE IF new_exists(name, fsys)
        THEN Result(Stage(s, {}), fsys, [a EXCEPT !.msg = TRUE, !.err = TRUE])
        ELSE IF ~out.ok
        THEN mutation_failed(s, buf, [a EXCEPT !.mut = TRUE], out.fs)
        ELSE LET paths == ancestors(name)
                 index == s.index \cup paths
             IN  Result(Stage(forward(s, [index |-> index]), {}), out.fs,
                        [a EXCEPT !.mut = TRUE])

\* `if await fs_exists(new_name):` in c_rename
rename_exists(new_name, fsys) == exists(new_name, fsys)

c_rename(s, node, child, out, buf, fsys) ==
    LET prev_name == The(node)
        parent == s.root
        new_name == join(parent, The(child))
        new_parent == dirname(new_name)
        a == [Act("c_rename") EXCEPT
                 !.dst_exists = node # {} /\ child # {} /\ new_name \in fsys]
    IN  IF node = {} \/ child = {} THEN Result(NoStage, fsys, a)
        ELSE IF rename_exists(new_name, fsys)
        THEN Result(Stage(s, {}), fsys, [a EXCEPT !.msg = TRUE, !.err = TRUE])
        ELSE IF ~out.ok
        THEN mutation_failed(s, buf, [a EXCEPT !.mut = TRUE], out.fs)
        ELSE LET paths == {parent, new_parent} \cup ancestors(new_parent)
                 index == s.index \cup paths
             IN  Result(Stage(forward(s, [index |-> index]), {}), out.fs,
                        [a EXCEPT !.mut = TRUE])

c_clear_selection(s, fsys) ==
    Result(Stage(forward(s, [selection |-> {}]), {}), fsys, Act("c_clear_selection"))

c_clear_filter(s, fsys) ==
    Result(Stage(forward(s, [pattern |-> "", search_set |-> {}]), {}), fsys,
           Act("c_clear_filter"))

\* c_select adding the rows to the selection
c_select_adds(s, is_visual, nodes, fsys) ==
    IF is_visual \/ nodes # {}
    THEN LET selection == s.selection \cup nodes
         IN  Result(Stage(forward(s, [selection |-> selection]), {}), fsys,
                    [Act("c_select") EXCEPT !.nodes = nodes])
    ELSE Result(NoStage, fsys, Act("c_select"))

c_select(s, is_visual, nodes, fsys) ==
    IF is_visual \/ nodes # {}
    THEN LET selection == (s.selection \ nodes) \cup (nodes \ s.selection)
         IN  Result(Stage(forward(s, [selection |-> selection]), {}), fsys,
                    [Act("c_select") EXCEPT !.nodes = nodes])
    ELSE Result(NoStage, fsys, Act("c_select"))

\* _delete: the paths it is about, the selection or else the rows under the cursor
delete_targets(s, nodes) ==
    unify_ancestors(IF s.selection # {} THEN s.selection ELSE nodes)

\* _delete calling yeet whatever the answer to the prompt is
_delete_unconfirmed(s, nodes, ans, out, buf, op, fsys) ==
    LET unified == delete_targets(s, nodes)
        a == [Act(op) EXCEPT !.ans = IF ans THEN "yes" ELSE "no", !.mut = TRUE]
    IN  IF unified = {} THEN Result(NoStage, fsys, Act(op))
        ELSE IF ~out.ok THEN mutation_failed(s, buf, a, out.fs)
        ELSE Result(Stage(forward(s, [selection |-> {}]), {}), out.fs, a)

\* _delete with yeet = remove (c_delete) or trash (c_trash)
_delete(s, nodes, ans, out, buf, op, fsys) ==
    LET unified == delete_targets(s, nodes)
        a == Act(op)
    IN  IF unified = {} THEN Result(NoStage, fsys, a)
        ELSE IF ~ans THEN Result(NoStage, fsys, [a EXCEPT !.ans = "no"])
        ELSE IF ~out.ok
        THEN mutation_failed(s, buf, [a EXCEPT !.ans = "yes", !.mut = TRUE], out.fs)
        ELSE Result(Stage(forward(s, [selection |-> {}]), {}), out.fs,
                    [a EXCEPT !.ans = "yes", !.mut = TRUE])

_find_dest(src, node) ==
    LET name == basename(src)
        parent == IF is_dir(node) THEN node ELSE dirname(node)
    IN  join(parent, name)

\* _operation.pre_op: {src: dst} for the unified selection
operations(s, node) ==
    [ src \in unify_ancestors(s.selection) |-> _find_dest(src, The(node)) ]

\* _operation.p_pre, had it found nothing
pre_existing_unchecked(ops, fsys) == {}

\* _operation.p_pre: the sources whose destination exists
pre_existing(ops, fsys) == { src \in DOMAIN ops : exists(ops[src], fsys) }

\* _operation with action = cut (c_cut) or copy (c_copy)
_operation(s, node, ans, out, buf, op, fsys) ==
    LET unified == unify_ancestors(s.selection)
        ops == operations(s, node)
        a == [Act(op) EXCEPT
                 !.dst_exists = unified # {} /\ node # {}
                                /\ \E src \in unified : ops[src] \in fsys]
    IN  IF unified = {} \/ node = {}
        THEN Result(NoStage, fsys, [a EXCEPT !.msg = TRUE, !.err = TRUE])
        ELSE IF pre_existing(ops, fsys) # {}
        THEN Result(NoStage, fsys, [a EXCEPT !.msg = TRUE, !.err = TRUE])
        ELSE IF ~ans THEN Result(NoStage, fsys, [a EXCEPT !.ans = "no"])
        ELSE IF ~out.ok
        THEN mutation_failed(s, buf, [a EXCEPT !.ans = "yes", !.mut = TRUE], out.fs)
        ELSE LET paths == { dirname(q) : q \in unified \cup { ops[src] : src \in unified } }
                 index == s.index \cup paths
             IN  Result(Stage(forward(s, [index |-> index, selection |-> {}]), {}), out.fs,
                        [a EXCEPT !.ans = "yes", !.mut = TRUE])

(***************************************************************************)
(* One command at a time: `stage = await fn(...)` with fn a transition      *)
(* function, its inputs read from the editor, the user and the disk.       *)
(***************************************************************************)
\* stage = await fn(...); if stage: ...
returns(p, r) ==
    /\ IF r.stage = NoStage THEN no_stage(p) ELSE publish(p, r.stage)
    /\ fs' = r.fs
    /\ act' = r.act
    /\ UNCHANGED <<init, ch, cwd, qflist, timer>>

\* An input the command did not ask for is not drawn: no answer without a prompt, no
\* outcome without a call, no buffer name without a refresh.
reads(r, ans, out, buf) ==
    /\ r.act.mut = out.called
    /\ r.act.buf = buf
    /\ r.act.ans = "" => ans

on_changedir(p) ==
    /\ pc[p] = "fn"
    /\ \E dir \in Dirs : returns(p, a_changedir(snap[p], dir, fs))

on_bufenter(p) ==
    /\ pc[p] = "fn"
    /\ \E buf \in Bufs : returns(p, a_follow(snap[p], buf, fs))

fm_open(p) ==
    /\ pc[p] = "fn"
    /\ \E parsed \in BOOLEAN, buf \in Bufs : returns(p, c_open(snap[p], parsed, buf, fs))

\* CHADprimary and the other clicks
primary(p) ==
    /\ pc[p] = "fn"
    /\ \E node \in NodeOpts(snap[p]), ans \in BOOLEAN :
          \E orphan \in IF node = {} THEN {FALSE} ELSE BOOLEAN :
              LET r == c_click(snap[p], node, orphan, ans, fs)
              IN  reads(r, ans, NotCalled(fs), {}) /\ returns(p, r)

change_focus(p) ==
    /\ pc[p] = "fn"
    /\ \E node \in NodeOpts(snap[p]) : returns(p, c_change_focus(snap[p], node, fs))

change_focus_up(p) ==
    /\ pc[p] = "fn"
    /\ returns(p, c_change_focus_up(snap[p], fs))

collapse(p) ==
    /\ pc[p] = "fn"
    /\ \E node \in NodeOpts(snap[p]) : returns(p, c_collapse(snap[p], node, fs))

refresh(p) ==
    /\ pc[p] = "fn"
    /\ \E buf \in Bufs :
          returns(p, c_refresh(snap[p], buf, [Act("c_refresh") EXCEPT !.msg = TRUE], fs))

jump_to_current(p) ==
    /\ pc[p] = "fn"
    /\ returns(p, c_jump_to_current(snap[p], fs))

toggle_follow(p) ==
    /\ pc[p] = "fn"
    /\ returns(p, c_toggle_follow(snap[p], fs))

filter_pattern(p) ==
    /\ pc[p] = "fn"
    /\ \E pattern \in Patterns : returns(p, c_new_filter(snap[p], pattern, fs))

\* search() is called for a pattern that is not empty: it finds paths or fails
search_pattern(p) ==
    /\ pc[p] = "fn"
    /\ \E pattern \in Patterns :
          \E failed \in IF pattern = "" THEN {FALSE} ELSE BOOLEAN :
              \E found \in IF pattern = "" \/ failed THEN {{}} ELSE SearchSets(snap[p].root) :
                  returns(p, c_new_search(snap[p], pattern, found, failed, fs))

new(p) ==
    /\ pc[p] = "fn"
    /\ \E cursor \in NodeOpts(snap[p]), child \in RelNames, buf \in Bufs :
          LET node == IF cursor # {} THEN The(cursor) ELSE snap[p].root
              parent == IF is_dir(node) THEN node ELSE dirname(node)
          IN  /\ child # {} => join(parent, The(child)) \in Paths
              /\ \E out \in {NotCalled(fs)}
                            \cup (IF child = {} THEN {}
                                  ELSE new_outcomes(join(parent, The(child)), fs)) :
                    LET r == c_new(snap[p], cursor, child, out, buf, fs)
                    IN  reads(r, TRUE, out, buf) /\ returns(p, r)

rename(p) ==
    /\ pc[p] = "fn"
    /\ \E node \in NodeOpts(snap[p]), child \in RelNames, buf \in Bufs :
          /\ child # {} => join(snap[p].root, The(child)) \in Paths
          /\ \E out \in {NotCalled(fs)}
                        \cup (IF node = {} \/ child = {} THEN {}
                              ELSE rename_outcomes(The(node),
                                                   join(snap[p].root, The(child)), fs)) :
                LET r == c_rename(snap[p], node, child, out, buf, fs)
                IN  reads(r, TRUE, out, buf) /\ returns(p, r)

clear_selection(p) ==
    /\ pc[p] = "fn"
    /\ returns(p, c_clear_selection(snap[p], fs))

clear_filter(p) ==
    /\ pc[p] = "fn"
    /\ returns(p, c_clear_filter(snap[p], fs))

select(p) ==
    /\ pc[p] = "fn"
    /\ \E is_visual \in BOOLEAN :
          \E nodes \in NodeSets(snap[p], is_visual) :
              returns(p, c_select(snap[p], is_visual, nodes, fs))

\* CHADdelete and CHADtrash; `state.selection or {...}` reads the rows only when
\* nothing is selected
delete(p) ==
    /\ pc[p] = "fn"
    /\ \E op \in {"c_delete", "c_trash"}, ans \in BOOLEAN, buf \in Bufs :
          \E nodes \in IF snap[p].selection # {} THEN {{}}
                       ELSE NodeSets(snap[p], TRUE) \cup NodeSets(snap[p], FALSE) :
              \E out \in {NotCalled(fs)}
                         \cup remove_outcomes(delete_targets(snap[p], nodes), fs) :
                  LET r == _delete(snap[p], nodes, ans, out, buf, op, fs)
                  IN  reads(r, ans, out, buf) /\ returns(p, r)

\* CHADcut and CHADcopy
cut(p) ==
    /\ pc[p] = "fn"
    /\ \E op \in {"c_cut", "c_copy"}, node \in NodeOpts(snap[p]), ans \in BOOLEAN, buf \in Bufs :
          \E out \in {NotCalled(fs)}
                     \cup (IF node = {} THEN {}
                           ELSE transfer_outcomes(operations(snap[p], node), fs, op = "c_cut")) :
              LET r == _operation(snap[p], node, ans, out, buf, op, fs)
              IN  reads(r, ans, out, buf) /\ returns(p, r)

\* c_open_system: open_gui hands the path of the cursor row to the desktop's
\* opener, which may fail; nothing is returned either way
c_open_system(s, node, failed, fsys) ==
    IF node # {}
    THEN Result(NoStage, fsys, [Act("c_open_system") EXCEPT !.msg = failed, !.nodes = node])
    ELSE Result(NoStage, fsys, Act("c_open_system"))

\* CHADopen_sys
open_sys(p) ==
    /\ pc[p] = "fn"
    /\ \E node \in NodeOpts(snap[p]) :
          \E failed \in IF node = {} THEN {FALSE} ELSE BOOLEAN :
              returns(p, c_open_system(snap[p], node, failed, fs))

on_quickfix(p) ==
    /\ pc[p] = "fn"
    /\ returns(p, a_quickfix(snap[p], fs))

toggle_quickfix_filtering(p) ==
    /\ pc[p] = "fn"
    /\ returns(p, c_toggle_qf_filtering(snap[p], fs))

\* Something else than the plugin (a compiler run, :cexpr) replaces the quickfix list.
quickfix_changes ==
    /\ \A p \in Procs : pc[p] \in {"idle", "schedule"}
    /\ \E l \in QfLists \ {qflist} : qflist' = l
    /\ UNCHANGED <<lockvars, pc, res, init, ch, state, snap, stage, drawn, rendered,
                   cwd, fs, act, timer>>

\* Something else than the plugin creates a path or removes a directory tree.
disk_changes ==
    /\ \A p \in Procs : pc[p] \in {"idle", "schedule"}
    /\ \E q \in Paths \ {<<>>} :
          \/ /\ q \notin fs
             /\ dirname(q) \in fs
             /\ fs' = fs \cup {q}
          \/ /\ q \in fs
             /\ fs' = fs \ Subtree({q})
    /\ UNCHANGED <<lockvars, pc, res, init, ch, state, snap, stage, drawn, rendered,
                   cwd, qflist, act, timer>>

\* The coroutine of the one command in flight.
First == CHOOSE p \in Runs : \A q \in Runs : p <= q

\* The editor was started in "/" and Main._initialize has run.
InitT ==
    /\ locked = FALSE
    /\ waiters = <<>>
    /\ woken = {}
    /\ pc = [p \in Procs |-> IF p = Ooda THEN "schedule" ELSE "idle"]
    /\ res = [p \in Procs |-> ""]
    /\ init = "done"
    /\ ch = FALSE
    /\ state = NoState
    /\ snap = [p \in Procs |-> NoState]
    /\ stage = [p \in Procs |-> NoStage]
    /\ drawn = NoState
    /\ rendered = NoState
    /\ cwd = <<>>
    /\ fs = Paths
    /\ qflist = {}
    /\ act = NoAct
    /\ timer = Unarmed

\* The commands that change the disk, the selection and the filter.
NextT ==
    \/ disk_changes
    \/ submit(First)
    \/ run_lock(First)
    \/ curr_state_initial(First)
    \/ refresh(First)
    \/ filter_pattern(First)
    \/ search_pattern(First)
    \/ clear_filter(First)
    \/ new(First)
    \/ rename(First)
    \/ select(First)
    \/ delete(First)
    \/ cut(First)
    \/ redraw_done(First)
    \/ reap(First)

SpecT == InitT /\ [][NextT]_vars

\* The commands that move the root, follow the current buffer and fold directories.
NextN ==
    \/ disk_changes
    \/ submit(First)
    \/ run_lock(First)
    \/ curr_state_initial(First)
    \/ on_changedir(First)
    \/ on_bufenter(First)
    \/ fm_open(First)
    \/ primary(First)
    \/ change_focus(First)
    \/ change_focus_up(First)
    \/ collapse(First)
    \/ refresh(First)
    \/ jump_to_current(First)
    \/ toggle_follow(First)
    \/ clear_selection(First)
    \/ redraw_done(First)
    \/ reap(First)

SpecN == InitT /\ [][NextN]_vars

(***************************************************************************)
(* Properties of the dispatcher                                            *)
(***************************************************************************)
\* A coroutine inside `async with self.lock`, at one of its suspension points.
CS == {"await_init", "initial_state", "fn", "c_refresh", "fallback", "redraw"}

InCS(p) == pc[p] \in CS

\* Suspended inside its transition function (an editor prompt, a filesystem wait).
InFn(p) == pc[p] \in {"fn", "c_refresh", "fallback"}

\* p takes the lock in this step.
Acquires(p) == pc[p] \notin CS /\ pc'[p] \in CS

\* p publishes the State of the Stage its transition function returned.
Publishes(p) == InFn(p) /\ pc'[p] = "redraw"

\* p stores the State that initial_state built.
Constructs(p) == pc[p] = "initial_state" /\ pc'[p] = Fn(p)

\* p ends in this step with an exception.
Raises(p) == res[p] # "raised" /\ res'[p] = "raised"

\* p ends in this step, its transition function having returned None.
ReturnsNone(p) == res[p] # "none" /\ res'[p] = "none"

\* C1: mutual exclusion.  At most one action is between taking the lock (before it
\* reads the State) and the end of its redraw, and the lock is held at every
\* suspension point of that action.
C1_MutualExclusion ==
    /\ Cardinality({ p \in Procs : InCS(p) }) <= 1
    /\ (\E p \in Procs : InCS(p)) => locked

\* An action is suspended inside its transition function while another trigger waits.
C1_Witness ==
    \E p, q \in Procs : p # q /\ InFn(p) /\ pc[q] = "blocked" /\ locked

\* C2: linear State history.  self.state is written only by the coroutine that
\* holds the lock, and a Stage is published only when the State its action read is
\* still the published one: no update is lost.
C2_LinearHistory ==
    [][ /\ state' # state =>
              \E p \in Procs : locked /\ locked' /\ (Publishes(p) \/ Constructs(p))
        /\ \A p \in Procs : Publishes(p) =>
              /\ snap[p] = state
              /\ state' = stage'[p].state ]_vars

\* An action publishes a new State computed from the State an earlier action of
\* another trigger published and rendered.
C2_Witness ==
    \E p, q \in Procs :
        /\ p # q
        /\ pc[p] = "redraw"
        /\ res[q] = "staged"
        /\ snap[p] = rendered
        /\ stage[p].state # snap[p]
        /\ state = stage[p].state

\* C3: FIFO.  Whoever takes the lock is the oldest waiter, or finds nobody waiting:
\* no trigger, the background refresh included, overtakes an earlier one.
C3_Fifo ==
    [][ \A p \in Procs : Acquires(p) => (waiters = <<>> \/ Head(waiters) = p) ]_vars

\* The lock has been handed to the oldest of two waiting triggers.
C3_Witness ==
    /\ Len(waiters) >= 2
    /\ Head(waiters) \in woken
    /\ ~locked

\* C4 as claimed: after an exception the lock is free and the published State is the
\* one the action received or one whose redraw completed.
C4_Original ==
    [][ \A p \in Procs : Raises(p) =>
            /\ ~locked'
            /\ \/ snap[p] = NoState /\ state' = state
               \/ state' = snap[p]
               \/ stage[p] # NoStage /\ state' = stage[p].state /\ rendered' = state' ]_vars

\* C4 amended: after an exception the lock is free and the published State is whole:
\* the one the action received, or the one its transition function returned, which
\* was published and handed to redraw before the redraw raised.
C4_ErrorLeavesWholeState ==
    [][ \A p \in Procs : Raises(p) =>
            /\ ~locked'
            /\ state' = state
            /\ \/ snap[p] = NoState
               \/ state' = snap[p]
               \/ stage[p] # NoStage /\ state' = stage[p].state /\ drawn' = state' ]_vars

\* A redraw raised: the State it was drawing is published and not rendered.
C4_Witness ==
    \E p \in Procs :
        /\ res[p] = "raised"
        /\ ~locked
        /\ state # NoState
        /\ drawn = state
        /\ rendered # state

\* C5: liveness.  Every trigger that reached the lock ends, every action that fell
\* back to a nested refresh ends, and a held lock is released again.
C5_Liveness ==
    /\ \A p \in Runs : (pc[p] = "acquire") ~> (pc[p] = "done")
    /\ \A p \in Runs : (pc[p] = "fallback") ~> (pc[p] = "done")
    /\ locked ~> ~locked

\* An action is inside its nested c_refresh, holding the lock, while others wait.
C5_Witness ==
    \E p \in Runs : pc[p] = "fallback" /\ locked /\ Len(waiters) >= 1

\* C6: when the transition function returns None the dispatcher leaves self.state as
\* it is, the State the action received, and calls no redraw.
C6_NoneLeavesState ==
    [][ \A p \in Runs : ReturnsNone(p) =>
            /\ state' = state
            /\ state = snap[p]
            /\ drawn' = drawn
            /\ rendered' = rendered ]_vars

\* An action returned None after an earlier one had published and rendered a State.
C6_Witness ==
    \E p \in Runs :
        /\ pc[p] = "done"
        /\ res[p] = "none"
        /\ rendered # NoState
        /\ state = rendered

\* The commands that read the quickfix list, with a selection for them to keep.
NextQ ==
    \/ quickfix_changes
    \/ submit(First)
    \/ run_lock(First)
    \/ curr_state_initial(First)
    \/ on_quickfix(First)
    \/ toggle_quickfix_filtering(First)
    \/ refresh(First)
    \/ select(First)
    \/ redraw_done(First)
    \/ reap(First)

SpecQ == InitT /\ [][NextQ]_vars

\* Clicks on the rows of a tree that may be filtered or searched.
NextC ==
    \/ submit(First)
    \/ run_lock(First)
    \/ curr_state_initial(First)
    \/ primary(First)
    \/ filter_pattern(First)
    \/ search_pattern(First)
    \/ clear_filter(First)
    \/ redraw_done(First)
    \/ reap(First)

SpecC == InitT /\ [][NextC]_vars

(***************************************************************************)
(* The view that forward derives from a State and the disk: the node tree  *)
(* of the cartographer and the visible paths.  The tree is the one a scan  *)
(* at the transition yields.                                               *)
(***************************************************************************)
\* build_root: the root, and below it what the disk holds in the scanned
\* directories, which are the root and the directories of the index
Tree(s, fsys) ==
    { p \in Paths :
        \/ p = s.root
        \/ /\ is_parent(s.root, p)
           /\ exists(p, fsys)
           /\ \A a \in ancestors(p) : is_parent(s.root, a) => a \in s.index }

\* The filter pattern matches a name, never a path; the empty pattern matches nothing.
Matches(pattern, p) == pattern # "" /\ basename(p) = <<pattern>>

\* A node is shown by itself when the view is not filtering (no pattern and no
\* search set), when the search found it or when the pattern matches it; it is
\* visible by itself or through a descendant in the tree, and with quickfix
\* filtering on only if it or a descendant has quickfix entries.
Visible(s, p, fsys) ==
    LET below == { q \in Tree(s, fsys) : q = p \/ is_parent(p, q) }
    IN  /\ \E q \in below : \/ (s.pattern = "" /\ s.search_set = {})
                             \/ q \in s.search_set
                             \/ Matches(s.pattern, q)
        /\ s.qf_filtering => (\E q \in Paths : (q = p \/ is_parent(p, q))
                                                /\ q \in s.qf_locations)

\* The keys of paths_lookup: the visible nodes of the tree
paths_lookup(s, fsys) == { p \in Tree(s, fsys) : Visible(s, p, fsys) }

\* The editor was started in "/" or in "/b" and Main._initialize has run.
InitV ==
    /\ locked = FALSE
    /\ waiters = <<>>
    /\ woken = {}
    /\ pc = [p \in Procs |-> IF p = Ooda THEN "schedule" ELSE "idle"]
    /\ res = [p \in Procs |-> ""]
    /\ init = "done"
    /\ ch = FALSE
    /\ state = NoState
    /\ snap = [p \in Procs |-> NoState]
    /\ stage = [p \in Procs |-> NoStage]
    /\ drawn = NoState
    /\ rendered = NoState
    /\ cwd \in Dirs
    /\ fs = Paths
    /\ qflist = {}
    /\ act = NoAct
    /\ timer = Unarmed

\* The commands that add to the index, on a tree that may be filtered.
NextV ==
    \/ disk_changes
    \/ submit(First)
    \/ run_lock(First)
    \/ curr_state_initial(First)
    \/ on_changedir(First)
    \/ on_bufenter(First)
    \/ primary(First)
    \/ new(First)
    \/ rename(First)
    \/ filter_pattern(First)
    \/ redraw_done(First)
    \/ reap(First)

SpecV == InitV /\ [][NextV]_vars

\* Searches and filters on a tree that is folded and unfolded, with the quickfix
\* overlay.
NextS ==
    \/ disk_changes
    \/ quickfix_changes
    \/ submit(First)
    \/ run_lock(First)
    \/ curr_state_initial(First)
    \/ primary(First)
    \/ filter_pattern(First)
    \/ search_pattern(First)
    \/ toggle_quickfix_filtering(First)
    \/ redraw_done(First)
    \/ reap(First)

SpecS == InitT /\ [][NextS]_vars

\* The commands that can fail on what the user typed or on a tool outside the
\* editor, on a State with a selection, a filter and a search.
NextE ==
    \/ submit(First)
    \/ run_lock(First)
    \/ curr_state_initial(First)
    \/ fm_open(First)
    \/ search_pattern(First)
    \/ open_sys(First)
    \/ filter_pattern(First)
    \/ select(First)
    \/ redraw_done(First)
    \/ reap(First)

SpecE == InitT /\ [][NextE]_vars

\* A tree with a directory in a directory: /b/b and the file /b/b/d.
DeepPaths == Paths \cup { <<"b", "b">>, <<"b", "b", "d">> }

\* The session has unfolded some of the directories of that tree, from "/" or
\* from /b; rows are selected and directories are folded.
InitK ==
    /\ locked = FALSE
    /\ waiters = <<>>
    /\ woken = {}
    /\ pc = [p \in Procs |-> IF p = Ooda THEN "schedule" ELSE "idle"]
    /\ res = [p \in Procs |-> ""]
    /\ init = "done"
    /\ ch = FALSE
    /\ \E root \in { <<>>, <<"b">> } :
          \E index \in SUBSET { q \in DeepPaths : IsDirPath(q) } :
              /\ root \in index
              /\ state = [initial_state(root, 1) EXCEPT !.index = index]
    /\ snap = [p \in Procs |-> NoState]
    /\ stage = [p \in Procs |-> NoStage]
    /\ drawn = state
    /\ rendered = state
    /\ cwd = <<>>
    /\ fs = DeepPaths
    /\ qflist = {}
    /\ act = NoAct
    /\ timer = Unarmed

\* CHADcollapse on a row of that tree
collapse_deep(p) ==
    /\ pc[p] = "fn"
    /\ \E node \in {{}} \cup { {q} : q \in { r \in DeepPaths : r = snap[p].root
                                                         \/ is_parent(snap[p].root, r) } } :
          returns(p, c_collapse(snap[p], node, fs))

NextK ==
    \/ submit(First)
    \/ run_lock(First)
    \/ collapse_deep(First)
    \/ select(First)
    \/ redraw_done(First)
    \/ reap(First)

SpecK == InitK /\ [][NextK]_vars

\* The background refresh with the scheduler's timers, and one command.
NextD ==
    \/ schedule_update
    \/ schedule_wake
    \/ schedule_tick
    \/ schedule_yield
    \/ ooda_lock
    \/ ooda_resume
    \/ curr_state_initial(Ooda)
    \/ ooda_refresh_return
    \/ ooda_refresh_nvim_error
    \/ ooda_redraw_done
    \/ ooda_redraw_nvim_error
    \/ ooda_die
    \/ ooda_restart
    \/ submit(First)
    \/ run_lock(First)
    \/ run_resume(First)
    \/ curr_state_initial(First)
    \/ fn_return(First)
    \/ redraw_done(First)
    \/ reap(First)

SpecD == InitT /\ [][NextD]_vars

\* The clock advances, the event loop resumes every ready coroutine and every
\* collaborator call returns.
FairnessD ==
    /\ WF_vars(schedule_tick)
    /\ WF_vars(schedule_wake)
    /\ WF_vars(schedule_yield)
    /\ WF_vars(ooda_lock \/ ooda_resume \/ curr_state_initial(Ooda) \/ ooda_refresh_return
                 \/ ooda_refresh_nvim_error \/ ooda_redraw_done \/ ooda_redraw_nvim_error
                 \/ ooda_die \/ ooda_restart)
    /\ WF_vars(run_lock(First) \/ run_resume(First) \/ curr_state_initial(First)
                 \/ fn_return(First) \/ redraw_done(First))

LiveSpecD == SpecD /\ FairnessD

(***************************************************************************)
(* Properties of the transition functions                                  *)
(***************************************************************************)
\* The fields of a State, whichever object holds them.
Content(s) == [s EXCEPT !.id = 0]

\* C7: when a destination already exists (the name given to c_new or c_rename, a
\* destination of c_cut or c_copy), the command does not call its filesystem
\* mutation, prints an error, leaves the disk alone and the State published
\* afterwards is the very State it received.
C7_ConflictBeforeMutation ==
    [][ \A p \in Runs : (pc[p] = "fn" /\ act'.dst_exists) =>
            /\ ~act'.mut
            /\ act'.err
            /\ fs' = fs
            /\ state' = snap[p] ]_vars

C7_Witness ==
    /\ pc[First] = "done"
    /\ res[First] = "none"
    /\ act.op = "c_cut"
    /\ act.dst_exists
    /\ act.err
    /\ state.selection # {}

\* C8: when the filesystem mutation of c_new, c_rename, c_delete, c_trash, c_cut or
\* c_copy raises, the error is printed and the Stage the command returns is the one
\* c_refresh makes of the State the command received and the disk as the failed
\* mutation left it: a new State, published and passed to redraw.
C8_FailureRefreshes ==
    act.failed =>
        /\ pc[First] = "redraw"
        /\ act.err
        /\ state = stage[First].state
        /\ state.id # snap[First].id
        /\ Content(state)
             = Content(c_refresh(snap[First], act.buf, act, fs).stage.state)

C8_Witness ==
    /\ act.failed
    /\ act.op = "c_trash"
    /\ pc[First] = "redraw"
    /\ state.selection # {}
    /\ state.selection # snap[First].selection
    /\ state.index # snap[First].index

\* C9 as claimed: after a failed c_delete or c_trash every selected path that still
\* exists is still selected, whatever the filter pattern and the search set.
C9_Original ==
    (act.failed /\ act.op \in {"c_delete", "c_trash"}) =>
        \A x \in snap[First].selection : exists(x, fs) => x \in state.selection

\* C9 amended: after a failed c_delete or c_trash every selected path that still
\* exists is still selected, unless the filter pattern and the search set are both
\* non-empty.
C9_FailedDeleteKeepsSelection ==
    (/\ act.failed
     /\ act.op \in {"c_delete", "c_trash"}
     /\ (snap[First].pattern = "" \/ snap[First].search_set = {})) =>
        \A x \in snap[First].selection : exists(x, fs) => x \in state.selection

C9_Witness ==
    /\ act.failed
    /\ act.op = "c_delete"
    /\ snap[First].pattern # ""
    /\ snap[First].search_set = {}
    /\ \E x \in snap[First].selection : exists(x, fs) /\ x \in state.selection
    /\ \E x \in snap[First].selection : ~exists(x, fs) /\ x \notin state.selection

\* C10 as claimed: the index of the published State always contains the root.
C10_RootInIndex == state # NoState => state.root \in state.index

(***************************************************************************)
(* Properties of the quickfix overlay                                      *)
(***************************************************************************)
\* The toggle has returned and its State is published and being redrawn.
Toggled == act.op = "c_toggle_qf_filtering" /\ pc[First] = "redraw"

\* C11 as stated: toggling quickfix filtering while the quickfix list is empty
\* reports an error and publishes a State equal in every field, the quickfix flag
\* and locations included, to the State before the toggle.
C11_Original ==
    (Toggled /\ qflist = {}) =>
        /\ act.err
        /\ Content(state) = Content(snap[First])

\* C11: toggling quickfix filtering while the quickfix list is empty reports an
\* error and publishes a State that equals the State before the toggle in every
\* field but the quickfix overlay, whose flag is false and whose locations are the
\* (empty) list read; it equals the State before only if those were already so.
C11_EmptyToggleResets ==
    (Toggled /\ qflist = {}) =>
        /\ act.err
        /\ Content(state) = Content([snap[First] EXCEPT !.qf_filtering = FALSE,
                                                        !.qf_locations = {}])

C11_Witness ==
    /\ Toggled /\ qflist = {} /\ act.err
    /\ snap[First].qf_filtering /\ snap[First].qf_locations # {}
    /\ snap[First].selection # {}
    /\ ~state.qf_filtering /\ state.qf_locations = {}
    /\ state.selection = snap[First].selection

\* C12: after a toggle of quickfix filtering that read an empty quickfix list, the
\* published State has qf.filtering false and an error message was printed,
\* whatever the flag was before.
C12_EmptyToggleOff ==
    (Toggled /\ qflist = {}) =>
        /\ state = stage[First].state
        /\ ~state.qf_filtering
        /\ act.msg /\ act.err

C12_Witness ==
    /\ Toggled /\ qflist = {}
    /\ snap[First].qf_filtering
    /\ state = stage[First].state /\ ~state.qf_filtering
    /\ act.msg /\ act.err

\* C13: in every published State, qf.filtering implies that qf.locations is not
\* empty.
C13_FilteringHasLocations ==
    state # NoState => (state.qf_filtering => state.qf_locations # {})

(***************************************************************************)
(* Properties of the selection                                             *)
(***************************************************************************)
\* C14: a new-filter that installs a non-empty pattern and a new-search that
\* installs a non-empty search set publish their State with an empty selection.
C14_FilteringClearsSelection ==
    /\ (act.op = "c_new_filter" /\ pc[First] = "redraw" /\ state.pattern # "")
           => state.selection = {}
    /\ (act.op = "c_new_search" /\ pc[First] = "redraw" /\ state.search_set # {})
           => state.selection = {}

\* C15: a refresh of a State whose filter pattern is non-empty or whose search set
\* is non-empty publishes a State with an empty selection.
C15_RefreshWhileFilteringClears ==
    ( /\ act.op = "c_refresh" /\ pc[First] = "redraw"
      /\ (snap[First].pattern # "" \/ snap[First].search_set # {}) )
        => state.selection = {}

\* C17: a select publishes a State that differs from the one it was given only
\* in the selection, which changes by exactly the rows it read (symmetric
\* difference); a second select of the same rows right after it publishes the
\* selection the first one was given.
C17_SelectXor ==
    (act.op = "c_select" /\ pc[First] = "redraw") =>
        LET before == snap[First]
            xor == (before.selection \ act.nodes) \cup (act.nodes \ before.selection)
        IN  /\ Content(state) = Content([before EXCEPT !.selection = xor])
            /\ \A is_visual \in BOOLEAN :
                   (is_visual \/ act.nodes # {}) =>
                       LET again == c_select(state, is_visual, act.nodes, fs)
                       IN  /\ again.stage # NoStage
                           /\ Content(again.stage.state) = Content(before)

C17_Witness ==
    /\ act.op = "c_select" /\ pc[First] = "redraw"
    /\ Cardinality(act.nodes) = 2
    /\ act.nodes \cap snap[First].selection # {}
    /\ act.nodes \ snap[First].selection # {}
    /\ state.selection # {} /\ state.selection # snap[First].selection
    /\ state.qf_locations # {}

(***************************************************************************)
(* Properties of clicks                                                    *)
(***************************************************************************)
\* C18: a click on the row of a folder prints a message, returns None and leaves
\* the published State as it was when the State it was given has a filter pattern
\* or a search set; otherwise it publishes a State whose index differs from the
\* one it was given in exactly the clicked path.
C18_FolderClick ==
    [][ \A p \in Runs :
          ( /\ pc[p] = "fn" /\ act'.op = "c_click"
            /\ act'.nodes # {} /\ ~act'.err /\ is_dir(The(act'.nodes)) ) =>
              LET before == snap[p]
              IN  IF before.pattern # "" \/ before.search_set # {}
                  THEN /\ act'.msg
                       /\ pc'[p] = "done" /\ res'[p] = "none"
                       /\ state' = state /\ state' = before
                  ELSE /\ pc'[p] = "redraw"
                       /\ (state'.index \ before.index) \cup (before.index \ state'.index)
                             = act'.nodes
                       /\ Content(state') = Content([before EXCEPT !.index = state'.index])
      ]_vars

C18_Witness ==
    /\ act.op = "c_click" /\ act.nodes = {<<"b">>} /\ ~act.err
    /\ pc[First] = "done" /\ res[First] = "none" /\ act.msg
    /\ state.pattern = "" /\ state.search_set # {}
    /\ <<"b">> \in state.index

(***************************************************************************)
(* Properties of refresh                                                   *)
(***************************************************************************)
\* C16: in the State published by a refresh every index entry but the root and
\* every selection entry is a path on the disk as the refresh found it, and the
\* refresh reported no error.
C16_RefreshPrunes ==
    (act.op = "c_refresh" /\ pc[First] = "redraw") =>
        /\ \A i \in state.index : i = state.root \/ exists(i, fs)
        /\ \A x \in state.selection : exists(x, fs)
        /\ ~act.err

(***************************************************************************)
(* Properties of the view                                                  *)
(***************************************************************************)
\* The paths the command in flight has added to the index.
Added == IF pc[First] = "redraw" THEN state.index \ snap[First].index ELSE {}

Searched == act.op = "c_new_search" /\ pc[First] = "redraw" /\ state.search_set # {}

\* C20 as stated: after a search that installs a non-empty search set, every node
\* that is not in the search set and has no descendant in it is absent from
\* paths_lookup, and every ancestor within the root of a path of the search set is
\* present.
C20_Original ==
    Searched =>
        /\ \A p \in Tree(state, fs) :
               (p \notin state.search_set
                   /\ ~\E q \in state.search_set : is_parent(p, q))
                 => p \notin paths_lookup(state, fs)
        /\ \A q \in state.search_set : \A a \in ancestors(q) :
               (a = state.root \/ is_parent(state.root, a))
                 => a \in paths_lookup(state, fs)

\* C20: after a search that installs a non-empty search set, a node is absent from
\* paths_lookup if neither it nor a node below it in the tree is in the search set
\* or has a name the kept pattern matches; a path of the search set that was a node
\* of the tree before the search, and every ancestor of it within the root, is
\* present unless quickfix filtering is on and nothing at or below it has
\* quickfix entries.
C20_SearchShows ==
    Searched =>
        LET before == snap[First]
            found == state.search_set
            shown(p) == p \in found \/ Matches(before.pattern, p)
        IN  /\ \A p \in Tree(before, fs) :
                   (~\E q \in Tree(before, fs) : (q = p \/ is_parent(p, q)) /\ shown(q))
                     => p \notin paths_lookup(state, fs)
            /\ \A q \in found \cap Tree(before, fs) :
                   \A a \in (ancestors(q) \cup {q}) \cap Under(state.root) :
                       \/ a \in paths_lookup(state, fs)
                       \/ /\ state.qf_filtering
                          /\ ~\E l \in state.qf_locations : l = a \/ is_parent(a, l)

C20_Witness ==
    /\ Searched /\ snap[First].pattern # ""
    /\ <<"b", "d">> \in state.search_set \cap paths_lookup(state, fs)
    /\ <<"b">> \in paths_lookup(state, fs)
    /\ <<"d">> \in paths_lookup(state, fs)
    /\ ~state.qf_filtering /\ state.qf_locations # {}

(***************************************************************************)
(* Properties of the background refresh                                    *)
(***************************************************************************)
\* C21: once a change signal has been raised a background refresh eventually
\* runs, however many further signals arrive while the scheduler waits.
C21_SignalLeadsToRefresh == ch ~> (pc[Ooda] = "c_refresh")

(***************************************************************************)
(* Properties of the first State                                           *)
(***************************************************************************)
\* C22 as stated: initial_state is invoked exactly once, so the invocation
\* there is ends with the State that every later action reads.
C22_Original ==
    [][\A p \in Procs : pc[p] = "initial_state" /\ pc'[p] # "initial_state"
                            => state' # NoState]_vars

\* C22: initial_state returns a State only while there is none, and once there
\* is a State it stays and no action calls initial_state again.
C22_ConstructedOnce ==
    [][/\ \A p \in Procs : Constructs(p) => state = NoState /\ state' # NoState
       /\ state # NoState =>
            state' # NoState /\ \A p \in Procs : pc'[p] # "initial_state"]_vars

C22_Witness ==
    /\ state # NoState
    /\ drawn = state
    /\ \E p \in Runs : pc[p] = "fn" /\ snap[p] = state
    /\ \E p \in Procs : res[p] = "raised"

(***************************************************************************)
(* Properties of the State objects                                         *)
(***************************************************************************)
\* The State objects something refers to: the published one, the ones redraw was
\* given, and the ones the command in flight holds.
Held ==
    { x \in ({state, drawn, rendered}
             \cup { snap[p] : p \in Procs }
             \cup { stage[p].state : p \in { q \in Procs : stage[q] # NoStage } })
      : x # NoState }

\* The command returns a Stage.
Produces == pc[First] = "fn" /\ pc'[First] = "redraw"

\* C23 as stated: no State object changes, and an action that returns a Stage
\* publishes another object than the one it received.
C23_Original ==
    [][/\ \A x \in Held : \A y \in Held' : x.id = y.id => x = y
       /\ Produces => state'.id # state.id]_vars

\* C23: no State object changes; the State an action publishes is the object it
\* received or another object.
C23_NoMutation ==
    [][/\ \A x \in Held : \A y \in Held' : x.id = y.id => x = y
       /\ Produces => state' = snap[First] \/ state'.id \notin { x.id : x \in Held }]_vars

C23_Witness ==
    /\ pc[First] = "redraw"
    /\ act.op = "c_collapse"
    /\ rendered = snap[First]
    /\ snap[First].id # state.id
    /\ snap[First].index # state.index

(***************************************************************************)
(* Properties of the calls to the editor                                   *)
(***************************************************************************)
\* A coroutine is suspended in a call to the editor of its own.
Calling(p) == pc[p] \in {"initial_state", "fn", "c_refresh", "fallback", "redraw"}

\* C24: every call to the editor is made under the dispatcher lock, and the
\* registration calls of _initialize run under it while no action that holds
\* it is calling the editor.
C24_EditorCallsUnderLock ==
    /\ \A p \in Procs : Calling(p) => locked
    /\ init = "registering" => locked /\ \A p \in Procs : ~Calling(p)

(***************************************************************************)
(* Properties of the order of events in one action                         *)
(***************************************************************************)
\* C25: an action publishes under the lock the Stage computed from the State
\* that is still the published one, redraw is called with the State just
\* published and runs under the lock while that State stays the published one;
\* so with the lock free the State last passed to redraw is the published one.
C25_EventOrder ==
    [][/\ \A p \in Procs :
            /\ Publishes(p) => /\ locked
                               /\ snap[p] = state
                               /\ state' = stage'[p].state
                               /\ drawn' = state'
            /\ pc[p] = "redraw" => locked /\ stage[p].state = state /\ drawn = state
       /\ ~locked' /\ drawn' # NoState => drawn' = state']_vars

C25_Witness ==
    /\ ~locked
    /\ drawn # NoState
    /\ rendered # NoState
    /\ rendered # drawn
    /\ \E p \in Runs : res[p] = "staged"
    /\ \E p \in Runs : res[p] = "raised"

(***************************************************************************)
(* Properties of the commands that fail on their input or on a tool        *)
(***************************************************************************)
\* The command of p runs into arguments that do not parse, a pattern that the
\* search rejects, or an opener that fails.
InputFails(p) ==
    \/ \E buf \in Bufs : returns(p, c_open(snap[p], FALSE, buf, fs))
    \/ \E pattern \in Patterns \ {""} :
          returns(p, c_new_search(snap[p], pattern, {}, TRUE, fs))
    \/ \E node \in NodeOpts(snap[p]) \ {{}} :
          returns(p, c_open_system(snap[p], node, TRUE, fs))

\* C26: when the open command gets arguments that do not parse, the search
\* rejects the pattern or the opener fails, the error is printed, the action
\* returns None and the published State is the one from before.
C26_ErrorsChangeNothing ==
    [][pc[First] = "fn" /\ InputFails(First)
          => /\ act'.msg
             /\ res'[First] = "none"
             /\ state' = state
             /\ state' = snap[First]
             /\ drawn' = drawn
             /\ rendered' = rendered]_vars

C26_Witness ==
    /\ res[First] = "none"
    /\ act.op = "c_new_search"
    /\ act.err
    /\ state.search_set # {}
    /\ state.selection # {}
    /\ state.pattern # ""

(***************************************************************************)
(* Properties of collapse                                                  *)
(***************************************************************************)
\* The command collapses at the row of q.
CollapsedAt(q) ==
    /\ pc[First] = "fn"
    /\ q = state.root \/ is_parent(state.root, q)
    /\ returns(First, c_collapse(snap[First], {q}, fs))

\* C27: collapsing at a row whose folder is not the root publishes a State
\* whose index has no path equal to or beneath the folder and every other path
\* of the old index; with the root as target it returns None and the State stays.
C27_Collapse ==
    [][\A q \in DeepPaths :
          CollapsedAt(q) =>
            LET folder == IF IsDirPath(q) THEN q ELSE dirname(q)
            IN  IF folder # state.root
                THEN /\ pc'[First] = "redraw"
                     /\ \A i \in state'.index : i # folder /\ ~is_parent(folder, i)
                     /\ \A i \in state.index :
                            i # folder /\ ~is_parent(folder, i) => i \in state'.index
                ELSE /\ res'[First] = "none"
                     /\ state' = state]_vars

C27_Witness ==
    /\ pc[First] = "redraw"
    /\ act.op = "c_collapse"
    /\ {<<>>, <<"b">>, <<"b", "b">>} \subseteq snap[First].index
    /\ state.index = {<<>>}

(***************************************************************************)
(* Properties of refresh and the current buffer                            *)
(***************************************************************************)
\* C28: a refresh adds the ancestors of the current buffer's path to the index
\* if and only if follow is on and the buffer lies under the root; for a
\* buffer outside the root it adds no path and leaves `current`.
C28_RefreshFollows ==
    (act.op = "c_refresh" /\ pc[First] = "redraw") =>
        LET old == snap[First]
            buf == act.buf
            under == buf # {} /\ is_parent(old.root, The(buf))
        IN  /\ old.follow /\ under => ancestors(The(buf)) \subseteq state.index
            /\ ~(old.follow /\ under) => state.index \subseteq old.index \cup {old.root}
            /\ buf # {} /\ ~under => state.current = old.current

(***************************************************************************)
(* Properties of the confirmation prompt                                   *)
(***************************************************************************)
\* C29: when the answer to the prompt of delete, trash, cut or copy is not Yes,
\* the filesystem mutation is not called, the disk stays, the action returns
\* None and the published State is the one it read; the mutation is called
\* only in an action whose prompt was answered Yes.
C29_ConfirmedMutation ==
    [][pc[First] = "fn" /\ act'.op \in {"c_delete", "c_trash", "c_cut", "c_copy"} =>
          /\ act'.ans = "no" => /\ ~act'.mut
                                /\ fs' = fs
                                /\ res'[First] = "none"
                                /\ state' = snap[First]
                                /\ state' = state
          /\ act'.mut => act'.ans = "yes"
          /\ fs' # fs => act'.mut]_vars

C29_Witness ==
    /\ res[First] = "none"
    /\ act.op = "c_copy"
    /\ act.ans = "no"
    /\ ~act.mut
    /\ state.selection # {}

====
